---- MODULE Spec2Model ----
(***************************************************************************)
(* A model of alonzo.py: the MonzoClient, its request helper _query, the   *)
(* default-account resolution, the time-window parameters of               *)
(* list_transactions and the Account / User / Transaction constructors.    *)
(*                                                                         *)
(* The client is synchronous.  A call is modelled as the steps between its *)
(* blocking points: the step that starts the call and issues its first     *)
(* request, and one step per response received, which either finishes the  *)
(* call or issues the next request.  The server's answers are inputs.      *)
(*                                                                         *)
(* Text that the code formats or parses (timestamps) is a sequence of      *)
(* one-character strings; identifiers and header values are strings.       *)
(***************************************************************************)
EXTENDS Integers, Sequences, FiniteSets, TLC

VARIABLES
    token,                 \* self.token (alonzo.py:29)
    query_default_params,  \* the one shared mapping behind `params={}` (alonzo.py:31)
    caller_headers,        \* the caller's own headers mapping, as it is now
    pc,                    \* "idle", "await_accounts" or "await_main"
    call,                  \* the arguments of the call in progress / last made
    sent,                  \* requests handed to req_func during this call, in order
    recv,                  \* the outcome of each of those requests, in order
    result,                \* what the call returned or raised
    ctor_token,            \* history: the token given to __init__
    prev_default           \* history: the default account id an earlier call resolved

vars == <<token, query_default_params, caller_headers, pc, call, sent, recv,
          result, ctor_token, prev_default>>

----------------------------------------------------------------------------
(* Bounds and value sets *)

\* The longest account list the server returns in the model.
MaxAccounts == 2

\* Python's None, where the other values are strings.
None == "None"
\* Python's None, where the other values are records or mappings.
NoneRec == [none |-> TRUE]

\* An empty dict.
EmptyMap == [k \in {} |-> ""]

Tokens == {"tok_A", "tok_B"}
AccountIds == {"acc_1", "acc_2"}

----------------------------------------------------------------------------
(* Dates: datetime.date, datetime.datetime, timedelta, strftime *)

IsLeap(y) == (y % 4 = 0) /\ ((y % 100 # 0) \/ (y % 400 = 0))

DaysInMonth(y, m) ==
    IF m = 2 THEN (IF IsLeap(y) THEN 29 ELSE 28)
    ELSE IF m \in {4, 6, 9, 11} THEN 30 ELSE 31

\* The calendar day before d (a date record [year, month, day]).
PrevDay(d) ==
    IF d.day > 1 THEN [d EXCEPT !.day = d.day - 1]
    ELSE IF d.month > 1
         THEN [year |-> d.year, month |-> d.month - 1,
               day |-> DaysInMonth(d.year, d.month - 1)]
         ELSE [year |-> d.year - 1, month |-> 12, day |-> 31]

RECURSIVE DateMinusDays(_, _)
\* d - timedelta(days=n), for a date d.
DateMinusDays(d, n) == IF n = 0 THEN d ELSE DateMinusDays(PrevDay(d), n - 1)

Digits == <<"0", "1", "2", "3", "4", "5", "6", "7", "8", "9">>

\* strftime's %m, %d, %H, %M, %S: two digits, zero padded.
Pad2(n) == <<Digits[(n \div 10) + 1], Digits[(n % 10) + 1]>>

\* strftime's %Y for the four-digit years of the model.
Pad4(n) == <<Digits[(n \div 1000) + 1], Digits[((n \div 100) % 10) + 1],
             Digits[((n \div 10) % 10) + 1], Digits[(n % 10) + 1]>>

\* A date has no time of day: strftime formats its %H, %M and %S as zero.
TimeField(dt, f) == IF f \in DOMAIN dt THEN dt[f] ELSE 0

\* dt.strftime('%Y-%m-%dT%H:%M:%SZ'); no timezone conversion is made.
rfc3339_datetime(dt) ==
    Pad4(dt.year) \o <<"-">> \o Pad2(dt.month) \o <<"-">> \o Pad2(dt.day)
    \o <<"T">> \o Pad2(TimeField(dt, "hour")) \o <<":">>
    \o Pad2(TimeField(dt, "minute")) \o <<":">>
    \o Pad2(TimeField(dt, "second")) \o <<"Z">>

DigitVal(c) == CHOOSE n \in 0..9 : Digits[n + 1] = c

Num2(s, i) == 10 * DigitVal(s[i]) + DigitVal(s[i + 1])

\* dateutil's parse, on the timestamps the API returns (YYYY-MM-DDTHH:MM:SSZ):
\* a timezone-aware datetime in UTC.
parse_date(s) ==
    [year |-> 100 * Num2(s, 1) + Num2(s, 3), month |-> Num2(s, 6),
     day |-> Num2(s, 9), hour |-> Num2(s, 12), minute |-> Num2(s, 15),
     second |-> Num2(s, 18), tzinfo |-> "UTC"]

\* The dates date.today() returns in the model: month, year and leap-day
\* boundaries lie within the week before some of them.
Todays == {[year |-> 2020, month |-> 1, day |-> 22],
           [year |-> 2020, month |-> 1, day |-> 3],
           [year |-> 2020, month |-> 3, day |-> 5],
           [year |-> 2021, month |-> 3, day |-> 5]}

\* The datetimes a caller passes as since / before.
SinceArgs == {[year |-> 2020, month |-> 2, day |-> 9,
               hour |-> 7, minute |-> 5, second |-> 30]}
BeforeArgs == {[year |-> 2020, month |-> 12, day |-> 31,
                hour |-> 23, minute |-> 59, second |-> 59]}

----------------------------------------------------------------------------
(* What the server sends back *)

Created1 == <<"2","0","2","0","-","0","1","-","0","1","T",
              "0","0",":","0","0",":","0","0","Z">>
Created2 == <<"2","0","1","9","-","1","1","-","3","0","T",
              "1","8",":","4","5",":","0","9","Z">>

UserJson1 == [user_id |-> "u1", preferred_name |-> "Ada Lovelace",
              preferred_first_name |-> "Ada"]
UserJson2 == [user_id |-> "u2", preferred_name |-> "Alan Turing",
              preferred_first_name |-> "Alan"]

\* The owners the server lists for an account.
OwnersOf(id) == IF id = "acc_1" THEN <<UserJson1, UserJson2>> ELSE <<>>

\* One item of the accounts response.
AccountJsons ==
    {[id |-> i, description |-> "Current", created |-> Created1,
      type |-> "uk_retail", closed |-> c, owners |-> OwnersOf(i)] :
        i \in AccountIds, c \in BOOLEAN}

AccountLists == UNION {[1..n -> AccountJsons] : n \in 0..MaxAccounts}

TransactionJson1 == [id |-> "tx_1", created |-> Created1, description |-> "Coffee",
                     currency |-> "GBP", amount |-> -250]
TransactionJson2 == [id |-> "tx_2", created |-> Created2, description |-> "Salary",
                     currency |-> "GBP", amount |-> 120000]

\* The body of a non-success answer: JSON, but without the payload key.
ErrorBody == [code |-> "unauthorized.bad_access_token"]

\* What the HTTP and JSON facilities raise: req_func on a transport failure,
\* resp.json() on a body that is not JSON.
Failures == {"ConnectionError", "JSONDecodeError"}

BodiesFor(endpoint) ==
    CASE endpoint = "ping/whoami" ->
            {[authenticated |-> TRUE, user_id |-> "u1"], ErrorBody}
      [] endpoint = "accounts" ->
            {[accounts |-> l] : l \in AccountLists} \cup {ErrorBody}
      [] endpoint = "balance" ->
            {[balance |-> 1250, currency |-> "GBP"], ErrorBody}
      [] endpoint = "pots" ->
            {[pots |-> <<>>], ErrorBody}
      [] endpoint = "transactions" ->
            {[transactions |-> <<>>],
             [transactions |-> <<TransactionJson1, TransactionJson2>>],
             ErrorBody}

\* Every outcome of one request to the endpoint.
OutcomesFor(endpoint) ==
    {[kind |-> "raises", error |-> e] : e \in Failures}
    \cup {[kind |-> "json", body |-> b] : b \in BodiesFor(endpoint)}

----------------------------------------------------------------------------
(* The request helper *)

BaseUrl == "https://api.monzo.com/"

\* base_url.format(endpoint)
Url(endpoint) == BaseUrl \o endpoint

\* d.update(other), as the value d has afterwards.
DictUpdate(d, other) ==
    [k \in DOMAIN d \cup DOMAIN other |-> IF k \in DOMAIN other THEN other[k] ELSE d[k]]

\* d[k] = v, as the value d has afterwards.
DictSet(d, k, v) == [j \in DOMAIN d \cup {k} |-> IF j = k THEN v ELSE d[j]]

\* _headers = {"Authorization": "Bearer " + self.token}
AuthHeaders == [Authorization |-> "Bearer " \o token]

\* Mutant of QueryHeaders: the update runs the other way round, so a
\* caller's Authorization header survives.
QueryHeaders_caller_wins(headers) ==
    DictUpdate(AuthHeaders, IF headers = NoneRec THEN EmptyMap ELSE headers)

\* The headers mapping after `if headers is None: headers = {}` and
\* `headers.update(_headers)`.  When the caller passed a mapping, this is
\* that same object, updated in place.
QueryHeaders(headers) ==
    DictUpdate(IF headers = NoneRec THEN EmptyMap ELSE headers, AuthHeaders)

\* The arguments _query hands to req_func.
_query_request(endpoint, params, data, headers) ==
    [url |-> Url(endpoint), params |-> params, data |-> data,
     headers |-> QueryHeaders(headers)]

\* Mutant of _query_result: a failed request is swallowed and an empty
\* mapping returned in its place.
_query_result_swallow(outcome) ==
    IF outcome.kind = "raises"
    THEN [kind |-> "returned", value |-> EmptyMap]
    ELSE [kind |-> "returned", value |-> outcome.body]

\* What _query returns or raises, given the outcome of its request:
\* an exception of req_func or of resp.json() is not caught.
_query_result(outcome) ==
    IF outcome.kind = "raises"
    THEN [kind |-> "raised", error |-> outcome.error]
    ELSE [kind |-> "returned", value |-> outcome.body]

\* The query string req_func builds from params: a key whose value is None
\* is left out of it.
WireParams(params) ==
    [k \in {j \in DOMAIN params : ~(j = "account_id" /\ params[j] = None)}
        |-> params[k]]

----------------------------------------------------------------------------
(* Account, User, Transaction *)

\* User(**u)
User(u) == [user_id |-> u.user_id, preferred_name |-> u.preferred_name,
            preferred_first_name |-> u.preferred_first_name]

\* Mutant of _new_from_api_response: the closed flag is copied, not negated.
_new_from_api_response_not_negated(resp) ==
    [id |-> resp.id,
     description |-> resp.description,
     created |-> parse_date(resp.created),
     account_type |-> resp.type,
     is_active |-> resp.closed,
     owners |-> [i \in 1..Len(resp.owners) |-> User(resp.owners[i])]]

\* Account._new_from_api_response(resp)
_new_from_api_response(resp) ==
    [id |-> resp.id,
     description |-> resp.description,
     created |-> parse_date(resp.created),
     account_type |-> resp.type,
     is_active |-> ~resp.closed,
     owners |-> [i \in 1..Len(resp.owners) |-> User(resp.owners[i])]]

\* Transaction(api_resp): every field copied, created replaced by its parse.
Transaction(api_resp) == [api_resp EXCEPT !.created = parse_date(api_resp.created)]

\* list_accounts, given the outcome of its accounts request.
list_accounts_result(outcome) ==
    LET q == _query_result(outcome) IN
    IF q.kind = "raised" THEN q
    ELSE IF "accounts" \notin DOMAIN q.value
         THEN [kind |-> "raised", error |-> "KeyError"]
         ELSE [kind |-> "returned",
               value |-> [i \in 1..Len(q.value.accounts) |->
                            _new_from_api_response(q.value.accounts[i])]]

\* list_transactions' return, given the outcome of its transactions request.
list_transactions_result(outcome) ==
    LET q == _query_result(outcome) IN
    IF q.kind = "raised" THEN q
    ELSE IF "transactions" \notin DOMAIN q.value
         THEN [kind |-> "raised", error |-> "KeyError"]
         ELSE [kind |-> "returned",
               value |-> [i \in 1..Len(q.value.transactions) |->
                            Transaction(q.value.transactions[i])]]

----------------------------------------------------------------------------
(* Default account and time parameters *)

RECURSIVE FirstActiveFrom(_, _)
\* The loop of _get_default_account_id from position i on: the id of the
\* first account with is_active, None when the loop ends without one.
FirstActiveFrom(accounts, i) ==
    IF i > Len(accounts) THEN None
    ELSE IF accounts[i].is_active THEN accounts[i].id
         ELSE FirstActiveFrom(accounts, i + 1)

\* Mutant of _get_default_account_id: the last active account is taken.
_get_default_account_id_last(accounts) ==
    LET active == {i \in 1..Len(accounts) : accounts[i].is_active} IN
    IF active = {} THEN None
    ELSE accounts[CHOOSE i \in active : \A j \in active : i >= j].id

\* Mutant of _get_default_account_id: with no active account, the first
\* account of the list is taken.
_get_default_account_id_fallback(accounts) ==
    IF FirstActiveFrom(accounts, 1) = None /\ Len(accounts) > 0
    THEN accounts[1].id
    ELSE FirstActiveFrom(accounts, 1)

\* Mutant of _get_default_account_id: a default resolved by an earlier call
\* is reused.
_get_default_account_id_cached(accounts) ==
    IF prev_default # None THEN prev_default ELSE FirstActiveFrom(accounts, 1)

\* _get_default_account_id, given what list_accounts returned.
_get_default_account_id(accounts) == FirstActiveFrom(accounts, 1)

\* Mutant of _populate_time_params: the default since is today, the week is
\* not subtracted.
_populate_time_params_no_week(params, since, before, today) ==
    LET since1 == IF since = NoneRec THEN today ELSE since
        p1 == DictSet(params, "since", rfc3339_datetime(since1))
    IN  IF before # NoneRec
        THEN DictSet(p1, "before", rfc3339_datetime(before))
        ELSE p1

\* _populate_time_params; today is what date.today() returns, read only
\* when since is None.
_populate_time_params(params, since, before, today) ==
    LET since1 == IF since = NoneRec THEN DateMinusDays(today, 7) ELSE since
        p1 == DictSet(params, "since", rfc3339_datetime(since1))
    IN  IF before # NoneRec
        THEN DictSet(p1, "before", rfc3339_datetime(before))
        ELSE p1

\* Mutant of TransactionParams: a since the caller supplied is sent even
\* when full is true.
TransactionParams_since_beats_full(account_id, since, before, full, today) ==
    LET params == [account_id |-> account_id] IN
    IF ~full \/ since # NoneRec
    THEN _populate_time_params(params, since, before, today)
    ELSE params

\* The params list_transactions builds (alonzo.py:128-130).
TransactionParams(account_id, since, before, full, today) ==
    LET params == [account_id |-> account_id] IN
    IF ~full THEN _populate_time_params(params, since, before, today) ELSE params

----------------------------------------------------------------------------
(* Calls *)

\* The headers mappings a caller of _query owns and passes.
CallerHeaders ==
    {EmptyMap,
     "X-Trace" :> "1",
     "Authorization" :> "Basic abc",
     ("X-Trace" :> "1") @@ ("Authorization" :> "Basic abc")}

\* The arguments of a call; an argument the operation does not take is None.
\* today is not an argument: it records what date.today() returned, once read.
Call(op, account_id, since, before, full, headers) ==
    [op |-> op, account_id |-> account_id, since |-> since, before |-> before,
     full |-> full, headers |-> headers, today |-> NoneRec]

\* The endpoint of the operation's own request.
MainEndpoint(op) ==
    CASE op = "whoami" -> "ping/whoami"
      [] op = "list_accounts" -> "accounts"
      [] op = "get_balance" -> "balance"
      [] op = "get_pots" -> "pots"
      [] op = "list_transactions" -> "transactions"
      [] op = "_query" -> "ping/whoami"

\* date.today() is read by _populate_time_params alone, and only when since
\* is None; list_transactions calls it only when full is false.
TodayInputs(c) ==
    IF c.op = "list_transactions" /\ ~c.full /\ c.since = NoneRec
    THEN Todays ELSE {NoneRec}

\* Mutant of NeedsDefault: the default account is resolved on every call.
NeedsDefault_always(account_id) == TRUE

\* `if account_id is None` (alonzo.py:102, 112, 125)
NeedsDefault(account_id) == account_id = None

\* The request get_balance, get_pots or list_transactions makes to its own
\* endpoint, once account_id is known.
MainRequest(c, account_id) ==
    CASE c.op = "get_balance" ->
            _query_request("balance", [account_id |-> account_id], None, NoneRec)
      [] c.op = "get_pots" ->
            _query_request("pots", [account_id |-> account_id], None, NoneRec)
      [] c.op = "list_transactions" ->
            _query_request("transactions",
                TransactionParams(account_id, c.since, c.before, c.full, c.today),
                None, NoneRec)

\* What the operation returns or raises, given the outcome of its own request.
MainResult(op, outcome) ==
    CASE op = "list_accounts" -> list_accounts_result(outcome)
      [] op = "list_transactions" -> list_transactions_result(outcome)
      [] OTHER -> _query_result(outcome)

\* History: the default account id the call before this one resolved, if it
\* resolved one.
LastDefault ==
    IF call.op \in {"get_balance", "get_pots", "list_transactions"}
       /\ call.account_id = None /\ Len(sent) = 2
    THEN sent[2].params.account_id
    ELSE prev_default

\* A call that makes one request with the default params and no headers.
StartSimple(op, endpoint) ==
    /\ call' = Call(op, None, NoneRec, NoneRec, FALSE, NoneRec)
    /\ sent' = <<_query_request(endpoint, query_default_params, None, NoneRec)>>
    /\ recv' = <<>>
    /\ result' = NoneRec
    /\ pc' = "await_main"
    /\ caller_headers' = NoneRec
    /\ prev_default' = LastDefault
    /\ UNCHANGED <<token, query_default_params, ctor_token>>

\* get_balance, get_pots, list_transactions up to their first request: the
\* accounts request of _get_default_account_id when account_id is None,
\* their own request otherwise.
StartAccountOp(c) ==
    /\ IF NeedsDefault(c.account_id)
       THEN /\ call' = c
            /\ sent' = <<_query_request("accounts", query_default_params, None, NoneRec)>>
            /\ pc' = "await_accounts"
       ELSE \E t \in TodayInputs(c) :
            /\ call' = [c EXCEPT !.today = t]
            /\ sent' = <<MainRequest(call', c.account_id)>>
            /\ pc' = "await_main"
    /\ recv' = <<>>
    /\ result' = NoneRec
    /\ caller_headers' = NoneRec
    /\ prev_default' = LastDefault
    /\ UNCHANGED <<token, query_default_params, ctor_token>>

\* A call starts when the one before it has ended: the client is synchronous.
whoami ==
    /\ pc = "idle"
    /\ StartSimple("whoami", "ping/whoami")

list_accounts ==
    /\ pc = "idle"
    /\ StartSimple("list_accounts", "accounts")

get_balance ==
    /\ pc = "idle"
    /\ \E a \in AccountIds \cup {None} :
        StartAccountOp(Call("get_balance", a, NoneRec, NoneRec, FALSE, NoneRec))

get_pots ==
    /\ pc = "idle"
    /\ \E a \in AccountIds \cup {None} :
        StartAccountOp(Call("get_pots", a, NoneRec, NoneRec, FALSE, NoneRec))

list_transactions ==
    /\ pc = "idle"
    /\ \E a \in AccountIds \cup {None}, s \in SinceArgs \cup {NoneRec},
          b \in BeforeArgs \cup {NoneRec}, f \in BOOLEAN :
        StartAccountOp(Call("list_transactions", a, s, b, f, NoneRec))

\* _query called directly, with headers of the caller's (or none).  The
\* update of line 39 acts on the mapping the caller passed.
_query ==
    /\ pc = "idle"
    /\ \E h \in CallerHeaders \cup {NoneRec} :
        /\ call' = Call("_query", None, NoneRec, NoneRec, FALSE, h)
        /\ sent' = <<_query_request("ping/whoami", query_default_params, None, h)>>
        /\ caller_headers' = IF h = NoneRec THEN NoneRec ELSE QueryHeaders(h)
        /\ recv' = <<>>
        /\ result' = NoneRec
        /\ pc' = "await_main"
        /\ prev_default' = LastDefault
        /\ UNCHANGED <<token, query_default_params, ctor_token>>

\* The accounts request of _get_default_account_id ends.  An exception
\* leaves list_accounts, _get_default_account_id and the operation; a list
\* of accounts gives the account_id of the operation's own request.
accounts_response ==
    /\ pc = "await_accounts"
    /\ \E o \in OutcomesFor("accounts") :
        LET la == list_accounts_result(o) IN
        /\ recv' = Append(recv, o)
        /\ IF la.kind = "raised"
           THEN /\ result' = la
                /\ pc' = "idle"
                /\ UNCHANGED <<call, sent>>
           ELSE \E t \in TodayInputs(call) :
                /\ call' = [call EXCEPT !.today = t]
                /\ sent' = Append(sent,
                        MainRequest(call', _get_default_account_id(la.value)))
                /\ pc' = "await_main"
                /\ UNCHANGED result
    /\ UNCHANGED <<token, query_default_params, caller_headers, ctor_token,
                   prev_default>>

\* The operation's own request ends, and with it the operation.
main_response ==
    /\ pc = "await_main"
    /\ \E o \in OutcomesFor(MainEndpoint(call.op)) :
        /\ recv' = Append(recv, o)
        /\ result' = MainResult(call.op, o)
    /\ pc' = "idle"
    /\ UNCHANGED <<token, query_default_params, caller_headers, call, sent,
                   ctor_token, prev_default>>

\* MonzoClient(token)
Init ==
    /\ token \in Tokens
    /\ ctor_token = token
    /\ query_default_params = EmptyMap
    /\ caller_headers = NoneRec
    /\ pc = "idle"
    /\ call = Call("__init__", None, NoneRec, NoneRec, FALSE, NoneRec)
    /\ sent = <<>>
    /\ recv = <<>>
    /\ result = NoneRec
    /\ prev_default = None

Next ==
    \/ whoami
    \/ list_accounts
    \/ get_balance
    \/ get_pots
    \/ list_transactions
    \/ _query
    \/ accounts_response
    \/ main_response

Spec == Init /\ [][Next]_vars

----------------------------------------------------------------------------
(* Vocabulary of the properties *)

AccountOps == {"get_balance", "get_pots", "list_transactions"}

\* The call in progress (or last made) omitted account_id.
Resolving == call.op \in AccountOps /\ call.account_id = None

\* The accounts request of this call was answered with an account list.
GotAccountList ==
    /\ Resolving
    /\ Len(recv) >= 1
    /\ recv[1].kind = "json"
    /\ "accounts" \in DOMAIN recv[1].body

\* That list, as the server sent it.
AccountList == recv[1].body.accounts

\* The positions of the accounts the server reports as not closed.
OpenIdx(l) == {i \in 1..Len(l) : ~l[i].closed}

\* The id of the first open account of the list; None when it has none.
FirstOpenId(l) ==
    IF OpenIdx(l) = {} THEN None
    ELSE l[CHOOSE i \in OpenIdx(l) : \A j \in OpenIdx(l) : i <= j].id

\* The call ended by returning a value.
Returned == pc = "idle" /\ result # NoneRec /\ result.kind = "returned"

\* The requests of this call to the transactions endpoint.
TransactionRequests == {i \in 1..Len(sent) : sent[i].url = BaseUrl \o "transactions"}

\* The proleptic Gregorian ordinal of a date (day 1 is 0001-01-01).
Ordinal(d) ==
    LET y == d.year - 1
        before == <<0, 31, 59, 90, 120, 151, 181, 212, 243, 273, 304, 334>>
        leapday == IF d.month > 2 /\ (d.year % 4 = 0)
                      /\ (d.year % 100 # 0 \/ d.year % 400 = 0)
                   THEN 1 ELSE 0
    IN  365 * y + (y \div 4) - (y \div 100) + (y \div 400)
        + before[d.month] + leapday + d.day

\* s has the shape YYYY-MM-DDTHH:MM:SSZ.
HasRfc3339Shape(s) ==
    /\ Len(s) = 20
    /\ s[5] = "-" /\ s[8] = "-" /\ s[11] = "T"
    /\ s[14] = ":" /\ s[17] = ":" /\ s[20] = "Z"
    /\ \A i \in (1..19) \ {5, 8, 11, 14, 17} : \E n \in 1..10 : Digits[n] = s[i]

\* s is the RFC3339 text of the date or datetime dt, read back field by field.
IsRfc3339Of(s, dt) ==
    /\ HasRfc3339Shape(s)
    /\ LET p == parse_date(s) IN
        /\ p.year = dt.year /\ p.month = dt.month /\ p.day = dt.day
        /\ p.hour = (IF "hour" \in DOMAIN dt THEN dt.hour ELSE 0)
        /\ p.minute = (IF "minute" \in DOMAIN dt THEN dt.minute ELSE 0)
        /\ p.second = (IF "second" \in DOMAIN dt THEN dt.second ELSE 0)

\* s is the RFC3339 text of midnight of the day n days before the date d.
IsRfc3339OfDaysBefore(s, d, n) ==
    /\ HasRfc3339Shape(s)
    /\ LET p == parse_date(s) IN
        /\ p.month \in 1..12
        /\ p.day \in 1..DaysInMonth(p.year, p.month)
        /\ Ordinal(p) + n = Ordinal(d)
        /\ p.hour = 0 /\ p.minute = 0 /\ p.second = 0

----------------------------------------------------------------------------
(* Properties *)

\* C1: when the account list answered to a call that omitted account_id has
\* an account with closed = false, the call's own request (balance, pots or
\* transactions) is issued with account_id equal to the id of the first such
\* account in the server's order.
C1_DefaultIsFirstOpenAccount ==
    (GotAccountList /\ OpenIdx(AccountList) # {}) =>
        /\ Len(sent) = 2
        /\ sent[2].url = BaseUrl \o MainEndpoint(call.op)
        /\ sent[2].params.account_id = FirstOpenId(AccountList)
        /\ sent[2].params.account_id \in
              {AccountList[i].id : i \in OpenIdx(AccountList)}

\* A closed account precedes the open one chosen by get_balance().
C1_Witness ==
    /\ call.op = "get_balance"
    /\ GotAccountList
    /\ Len(AccountList) = 2
    /\ AccountList[1].closed /\ AccountList[1].id = "acc_1"
    /\ ~AccountList[2].closed /\ AccountList[2].id = "acc_2"
    /\ Len(sent) = 2
    /\ sent[2].params.account_id = "acc_2"

\* C2: when every account of the list is closed (or the list is empty), the
\* resolution yields None, raises nothing, and the call's own request is
\* still issued, its account_id None and so absent from the query string.
C2_NoOpenAccountSendsNoId ==
    (GotAccountList /\ OpenIdx(AccountList) = {}) =>
        /\ Len(sent) = 2
        /\ sent[2].url = BaseUrl \o MainEndpoint(call.op)
        /\ sent[2].params.account_id = None
        /\ "account_id" \notin DOMAIN WireParams(sent[2].params)
        /\ (Len(recv) = 1 => pc = "await_main" /\ result = NoneRec)

\* Two closed accounts, and the transactions request is out.
C2_Witness ==
    /\ call.op = "list_transactions"
    /\ GotAccountList
    /\ Len(AccountList) = 2
    /\ AccountList[1].closed /\ AccountList[2].closed
    /\ pc = "await_main"
    /\ Len(sent) = 2
    /\ sent[2].params.account_id = None

\* C3: with full = True the transactions request carries account_id and
\* nothing else, whatever account_id, since and before were.
C3_FullSendsNoTimeFilter ==
    (call.op = "list_transactions" /\ call.full) =>
        \A i \in TransactionRequests : DOMAIN sent[i].params = {"account_id"}

\* full = True with both since and before supplied.
C3_Witness ==
    /\ call.op = "list_transactions" /\ call.full
    /\ call.since # NoneRec /\ call.before # NoneRec
    /\ TransactionRequests # {}

\* C4: with full = False the transactions request always carries since: the
\* RFC3339 text of midnight seven days before the day of the call when the
\* caller gave none, of the caller's since otherwise; it carries before, as
\* RFC3339 text, exactly when the caller gave one.
C4_TimeWindowParams ==
    (call.op = "list_transactions" /\ ~call.full) =>
        \A i \in TransactionRequests :
            LET p == sent[i].params IN
            /\ "since" \in DOMAIN p
            /\ IF call.since = NoneRec
               THEN /\ call.today \in Todays
                    /\ IsRfc3339OfDaysBefore(p.since, call.today, 7)
               ELSE IsRfc3339Of(p.since, call.since)
            /\ ("before" \in DOMAIN p) <=> (call.before # NoneRec)
            /\ call.before # NoneRec => IsRfc3339Of(p.before, call.before)
            /\ DOMAIN p \subseteq {"account_id", "since", "before"}

\* Called on 2020-01-22 with no since and a before: since is 2020-01-15.
C4_Witness ==
    /\ call.op = "list_transactions" /\ ~call.full
    /\ call.since = NoneRec /\ call.before # NoneRec
    /\ call.today = [year |-> 2020, month |-> 1, day |-> 22]
    /\ \E i \in TransactionRequests :
        /\ sent[i].params.since =
              <<"2","0","2","0","-","0","1","-","1","5","T",
                "0","0",":","0","0",":","0","0","Z">>
        /\ "before" \in DOMAIN sent[i].params

\* C5: every request carries Authorization: "Bearer " + the constructor's
\* token; a caller's own Authorization value does not replace it, and every
\* other header of the caller's goes out unchanged.
C5_BearerHeaderOnEveryRequest ==
    \A i \in 1..Len(sent) :
        LET given == IF call.op = "_query" /\ call.headers # NoneRec
                     THEN call.headers ELSE EmptyMap
        IN  /\ DOMAIN sent[i].headers = DOMAIN given \cup {"Authorization"}
            /\ sent[i].headers["Authorization"] = "Bearer " \o ctor_token
            /\ \A k \in DOMAIN given \ {"Authorization"} :
                  sent[i].headers[k] = given[k]

\* The caller passed its own Authorization and another header.
C5_Witness ==
    /\ call.op = "_query"
    /\ call.headers = ("X-Trace" :> "1") @@ ("Authorization" :> "Basic abc")
    /\ Len(sent) = 1
    /\ sent[1].headers["Authorization"] = "Bearer tok_B"
    /\ sent[1].headers["X-Trace"] = "1"

\* C6: a public operation that returns has issued one request, to its own
\* endpoint, or, when account_id was omitted, two: the accounts request and
\* then its own.  No call issues the same request twice.
C6_OneOrTwoRequests ==
    /\ Len(sent) <= 2
    /\ \A i, j \in 1..Len(sent) : i # j => sent[i].url # sent[j].url
    /\ (Returned /\ call.op \in {"whoami", "list_accounts"}) =>
          /\ Len(sent) = 1
          /\ sent[1].url = BaseUrl \o MainEndpoint(call.op)
    /\ (Returned /\ call.op \in AccountOps /\ call.account_id # None) =>
          /\ Len(sent) = 1
          /\ sent[1].url = BaseUrl \o MainEndpoint(call.op)
    /\ (Returned /\ call.op \in AccountOps /\ call.account_id = None) =>
          /\ Len(sent) = 2
          /\ sent[1].url = BaseUrl \o "accounts"
          /\ sent[2].url = BaseUrl \o MainEndpoint(call.op)

\* get_pots() returned after two requests; get_pots(id) would be one.
C6_Witness ==
    /\ Returned
    /\ call.op = "get_pots" /\ call.account_id = None
    /\ Len(sent) = 2

C8_FailureEndsTheCall ==
    /\ Len(recv) <= Len(sent)
    /\ \A i \in 1..Len(recv) :
          recv[i].kind = "raises" =>
              /\ i = Len(recv)
              /\ i = Len(sent)
              /\ pc = "idle"
              /\ result = [kind |-> "raised", error |-> recv[i].error]

\* The accounts request of get_balance() failed in transport.
C8_Witness ==
    /\ call.op = "get_balance" /\ call.account_id = None
    /\ recv = <<[kind |-> "raises", error |-> "ConnectionError"]>>
    /\ Len(sent) = 1
    /\ pc = "idle"

\* C9: list_accounts returns one Account per item of the accounts list, in
\* the server's order, open or closed: the item's id, is_active the
\* negation of its closed flag, and its owners one for one, in order.
C9_ListAccountsMapsEveryItem ==
    (call.op = "list_accounts" /\ pc = "idle" /\ Len(recv) = 1
     /\ recv[1].kind = "json" /\ "accounts" \in DOMAIN recv[1].body) =>
        /\ Returned
        /\ Len(result.value) = Len(recv[1].body.accounts)
        /\ \A i \in 1..Len(result.value) :
            LET a == result.value[i]
                r == recv[1].body.accounts[i]
            IN  /\ a.id = r.id
                /\ a.is_active = ~r.closed
                /\ Len(a.owners) = Len(r.owners)
                /\ \A j \in 1..Len(a.owners) :
                      /\ a.owners[j].user_id = r.owners[j].user_id
                      /\ a.owners[j].preferred_name = r.owners[j].preferred_name

\* A closed account with two owners, then an open one.
C9_Witness ==
    /\ call.op = "list_accounts" /\ Returned
    /\ Len(result.value) = 2
    /\ result.value[1].id = "acc_1" /\ ~result.value[1].is_active
    /\ Len(result.value[1].owners) = 2
    /\ result.value[1].owners[2].user_id = "u2"
    /\ result.value[2].id = "acc_2" /\ result.value[2].is_active

\* C10: a request made with headers of the caller's leaves the caller's
\* mapping as it was.
C10_CallerHeadersUnchanged ==
    (call.op = "_query" /\ call.headers # NoneRec) =>
        caller_headers = call.headers

====
